---- MODULE Spec2Model ----
(***************************************************************************)
(* Model of packages/ra-core/src/form/FormDataConsumer.tsx.                *)
(*                                                                         *)
(* FormDataConsumer reads the ambient react-hook-form context (useWatch,   *)
(* getValues), resolves the form data and delegates to                     *)
(* FormDataConsumerView, which calls the render callback (children), then  *)
(* decides about the getSource warning and returns the callback's result.  *)
(*                                                                         *)
(* Representation of JavaScript values                                     *)
(*   - a string is a sequence of one-character strings, so that            *)
(*     concatenation and splitting on "." are computed, not assumed;       *)
(*   - an absent (undefined) string prop is the one-element sequence       *)
(*     NoSource, which no real string equals (its element is not a         *)
(*     character);                                                         *)
(*   - a form value (object tree or primitive) is the set of its           *)
(*     <<path, leaf>> pairs: a primitive p is {<< <<>>, p >>}, the object  *)
(*     {a: {b: 1}} is {<< <<"a","b">>, "1" >>} with keys written as        *)
(*     strings; the empty object is the leaf "{}";                         *)
(*   - a React node returned by the callback is a token of RetValues;      *)
(*   - pass-through props are a set of <<name, value>> pairs; their names  *)
(*     are other than children, formData, source, index, scopedFormData    *)
(*     and getSource.                                                      *)
(*                                                                         *)
(* The form (react-hook-form) is the component's environment: getValues()  *)
(* returns the form's current values, and useWatch() returns either an    *)
(* empty object or the form's values before the first form-value change,   *)
(* and the current values after every change.                              *)
(***************************************************************************)
EXTENDS Naturals, Sequences, FiniteSets

VARIABLES
    defaultValues,  \* the form's configured default values (its initial values)
    formValues,     \* the form's current values: what getValues() returns
    watched,        \* what useWatch() returns to the component
    changed,        \* whether a form-value change event has happened
    props,          \* the props the component is rendered with
    last,           \* the most recent step: its inputs and what the view did
    kept,           \* a getSource closure the callback kept from an earlier render
    memo            \* an earlier render remembered for comparison with later ones

vars == <<defaultValues, formValues, watched, changed, props, last, kept, memo>>

hostVars == <<defaultValues, formValues, watched, changed>>

\* Largest number of getSource calls a callback makes during one render.
MaxCalls == 2

(***************************************************************************)
(* Strings                                                                 *)
(***************************************************************************)
NoSource == <<"undefined">>

EmptyString == <<>>

Dot == "."

S_a == <<"a">>
S_b == <<"b">>
S_c == <<"c">>
S_0 == <<"0">>
S_users == <<"u", "s", "e", "r", "s">>
S_role == <<"r", "o", "l", "e">>
S_name == <<"n", "a", "m", "e">>
S_a_b == <<"a", ".", "b">>
S_users_0 == <<"u", "s", "e", "r", "s", ".", "0">>
S_users_0_role ==
    <<"u", "s", "e", "r", "s", ".", "0", ".", "r", "o", "l", "e">>

(***************************************************************************)
(* Values                                                                  *)
(***************************************************************************)
Prim(p) == {<< <<>>, p >>}

Undefined == Prim("undefined")

Null == Prim("null")

EmptyObj == Prim("{}")

\* The object {k: v}.
Field(k, v) == {<< <<k>> \o e[1], e[2] >> : e \in v}

\* Object.keys(v)
ObjectKeys(v) == {e[1][1] : e \in {x \in v : x[1] # <<>>}}

\* v[k] for an own key k; undefined when v has no such key (also for a
\* primitive v, whose property reads yield undefined).
Prop(v, k) ==
    LET s == {<<Tail(e[1]), e[2]>> : e \in {x \in v : x[1] # <<>> /\ Head(x[1]) = k}}
    IN IF s = {} THEN Undefined ELSE s

\* {a: {b: {c: 1}}}
FormAB == Field(S_a, Field(S_b, Field(S_c, Prim("1"))))

\* {users: [{role: null, name: 1}]}
FormUsers ==
    Field(S_users, Field(S_0, Field(S_role, Null) \cup Field(S_name, Prim("1"))))

\* {"a.b": 2, a: {b: 1}}: an own key that itself contains a dot
FormDotted == Field(S_a_b, Prim("2")) \cup Field(S_a, Field(S_b, Prim("1")))

\* Values a form can hold.
FormObjs == {EmptyObj, FormAB, FormUsers}

\* formData values handed to FormDataConsumerView directly.
ViewForms == FormObjs \cup {FormDotted}

Sources == {NoSource, EmptyString, S_a_b, S_users_0}

Indexes == {"undefined", "0", "1"}

RetValues == {"undefined", "null", "false", "true", "0", "element"}

ExtraProps == SUBSET {<<"form", "posts">>, <<"record", "r1">>}

RelativePaths == {S_role, S_name}

(***************************************************************************)
(* lodash/get, as used at line 65: get(formData, source)                   *)
(* The strings of the model hold word characters and dots only, so a path  *)
(* is "deep" exactly when it holds a dot, and stringToPath splits on dots. *)
(***************************************************************************)
HasDot(s) == \E i \in 1..Len(s) : s[i] = Dot

RECURSIVE SplitFrom(_, _, _)
SplitFrom(s, i, cur) ==
    IF i > Len(s) THEN <<cur>>
    ELSE IF s[i] = Dot THEN <<cur>> \o SplitFrom(s, i + 1, <<>>)
    ELSE SplitFrom(s, i + 1, Append(cur, s[i]))

stringToPath(s) == SplitFrom(s, 1, <<>>)

\* isKey: a plain property name, or an own key of the object
isKey(value, object) ==
    \/ ~HasDot(value)
    \/ (object \notin {Null, Undefined} /\ value \in ObjectKeys(object))

castPath(value, object) ==
    IF isKey(value, object) THEN <<value>> ELSE stringToPath(value)

\* baseGet's loop: while (object != null && index < length) object = object[path[index++]]
RECURSIVE baseGetLoop(_, _, _)
baseGetLoop(object, path, index) ==
    IF object \notin {Null, Undefined} /\ index < Len(path)
    THEN baseGetLoop(Prop(object, path[index + 1]), path, index + 1)
    ELSE IF index # 0 /\ index = Len(path) THEN object ELSE Undefined

baseGet(object, path) == baseGetLoop(object, castPath(path, object), 0)

get(object, path) ==
    IF object \in {Null, Undefined} THEN Undefined ELSE baseGet(object, path)

(***************************************************************************)
(* FormDataConsumerView (lines 58-104)                                     *)
(***************************************************************************)
\* JavaScript truthiness of a value returned by the render callback
Truthy(ret) == ret \in {"true", "element"}

\* Variant: the test of source is forgotten (typeof index !== 'undefined' only)
ScopedIndexOnly(index, source) == index # "undefined"

\* typeof index !== 'undefined' && source (line 64)
Scoped(index, source) ==
    index # "undefined" /\ source # NoSource /\ source # EmptyString

\* Variant: the rest props are not forwarded
RestNone(extra) == {}

\* const { children, form, formData, source, index, ...rest } = props (line 59)
Rest(extra) == {p \in extra : p[1] # "form"}

\* Variant: the separating dot is left out
getSourceNoDot(source, scopedSource) == source \o scopedSource

\* `${source}.${scopedSource}` (line 68)
getSource(source, scopedSource) == source \o <<Dot>> \o scopedSource

\* Variant: the flag lives outside the render (it is not reset at line 60 and
\* is shared with the closures of earlier renders)
getSourceHasBeenCalledShared(cb) ==
    Len(cb.calls) > 0 \/ cb.stale \/ last.called

\* let getSourceHasBeenCalled = false (line 60), set by every call of this
\* render's own getSource (line 67); cb.calls are the calls the callback makes
getSourceHasBeenCalled(cb) == Len(cb.calls) > 0

\* Variant: the whole form data is passed as scopedFormData
ChildrenArgsUnscoped(formData, source, index, extra) ==
    [keys |-> IF Scoped(index, source)
              THEN {"formData", "scopedFormData", "getSource"}
                       \cup {p[1] : p \in Rest(extra)}
              ELSE {"formData"} \cup {p[1] : p \in Rest(extra)},
     formData |-> formData,
     scopedFormData |-> IF Scoped(index, source) THEN formData ELSE Undefined,
     rest |-> Rest(extra)]

\* The object the render callback is called with (lines 70 and 72).
ChildrenArgs(formData, source, index, extra) ==
    IF Scoped(index, source)
    THEN [keys |-> {"formData", "scopedFormData", "getSource"}
                     \cup {p[1] : p \in Rest(extra)},
          formData |-> formData,
          scopedFormData |-> get(formData, source),
          rest |-> Rest(extra)]
    ELSE [keys |-> {"formData"} \cup {p[1] : p \in Rest(extra)},
          formData |-> formData,
          scopedFormData |-> Undefined,
          rest |-> Rest(extra)]

\* The calls of children made by one invocation of the view (lines 64-73).
ChildrenCalls(formData, source, index, extra) ==
    <<ChildrenArgs(formData, source, index, extra)>>

\* Variant: the warning ignores whether getSource was called
WarningConditionIgnoresCalls(index, ret, called) ==
    index # "undefined" /\ Truthy(ret)

\* First argument of warning() (line 76)
WarningCondition(index, ret, called) ==
    index # "undefined" /\ Truthy(ret) /\ ~called

\* util/warning: the number of messages one call emits
warning(condition) == IF condition THEN 1 ELSE 0

\* Variant: return ret || null
ViewResultOrNull(ret) == IF Truthy(ret) THEN ret ELSE "null"

\* return ret === undefined ? null : ret (line 103)
ViewResult(ret) == IF ret = "undefined" THEN "null" ELSE ret

\* One invocation of the view with a callback that behaves as cb:
\* cb.ret is what it returns, cb.calls the relative paths it passes to this
\* render's getSource, cb.stale whether it also calls the getSource it kept
\* from an earlier render, cb.keep whether it keeps this render's getSource.
FormDataConsumerView(formData, source, index, extra, cb) ==
    [op |-> "view",
     formData |-> formData,
     source |-> source,
     index |-> index,
     extra |-> extra,
     ret |-> cb.ret,
     calls |-> cb.calls,
     stale |-> cb.stale,
     args |-> ChildrenCalls(formData, source, index, extra),
     returned |-> [i \in 1..Len(cb.calls) |-> getSource(source, cb.calls[i])],
     staleReturned |-> IF cb.stale THEN <<getSource(kept.source, S_role)>> ELSE <<>>,
     called |-> getSourceHasBeenCalled(cb),
     warnings |-> warning(WarningCondition(index, cb.ret, getSourceHasBeenCalled(cb))),
     result |-> ViewResult(cb.ret)]

\* The closure the callback holds after the render.
KeptAfter(source, cb) ==
    IF cb.keep THEN [has |-> TRUE, source |-> source,
                     called |-> getSourceHasBeenCalled(cb)]
    ELSE IF cb.stale THEN [kept EXCEPT !.called = TRUE]
    ELSE kept

(***************************************************************************)
(* FormDataConsumer (lines 45-56)                                          *)
(***************************************************************************)
\* Variant: no fallback to getValues()
ResolveFormDataNoFallback(useWatchResult, getValuesResult) == useWatchResult

\* Variant: the test of emptiness is inverted
ResolveFormDataInverted(useWatchResult, getValuesResult) ==
    IF Cardinality(ObjectKeys(useWatchResult)) # 0
    THEN getValuesResult
    ELSE useWatchResult

\* if (Object.keys(formData).length === 0) formData = getValues() (lines 51-53)
ResolveFormData(useWatchResult, getValuesResult) ==
    IF Cardinality(ObjectKeys(useWatchResult)) = 0
    THEN getValuesResult
    ELSE useWatchResult

(***************************************************************************)
(* State, initial state and steps                                          *)
(***************************************************************************)
NoKept == [has |-> FALSE, source |-> NoSource, called |-> FALSE]

\* The value of `last` before any render.
NoRender ==
    [op |-> "init", formData |-> EmptyObj, source |-> NoSource,
     index |-> "undefined", extra |-> {}, ret |-> "undefined", calls |-> <<>>,
     stale |-> FALSE, args |-> <<>>, returned |-> <<>>, staleReturned |-> <<>>,
     called |-> FALSE, warnings |-> 0, result |-> "null"]

NoMemo == [has |-> FALSE, rec |-> NoRender]

\* Sequences of at most MaxCalls relative paths
CallSeqs(paths) == UNION {[1..n -> paths] : n \in 0..MaxCalls}

\* The behaviours of a render callback: getSource can be called only when the
\* view supplied it, a kept getSource only when one was kept.
Callbacks(rets, paths, scoped, closures) ==
    [ret : rets,
     calls : IF scoped THEN CallSeqs(paths) ELSE {<<>>},
     stale : IF closures /\ kept.has THEN BOOLEAN ELSE {FALSE},
     keep : IF closures /\ scoped THEN BOOLEAN ELSE {FALSE}]

\* The form before the first change event: its values are the configured
\* default values; the subscription has either emitted nothing yet (empty)
\* or holds the form's values.
InitHost(forms) ==
    /\ defaultValues \in forms
    /\ formValues = defaultValues
    /\ watched \in {EmptyObj, defaultValues}
    /\ changed = FALSE

\* The props a component is mounted with.
InitProps(forms, sources, indexes, extras) ==
    props \in [formData : forms, source : sources, index : indexes, extra : extras]

\* A form-value change event: the form commits new values and useWatch's
\* subscription delivers them to the component.
Change(v) ==
    /\ v # formValues
    /\ formValues' = v
    /\ watched' = v
    /\ changed' = TRUE
    /\ last' = [last EXCEPT !.op = "change"]
    /\ UNCHANGED <<defaultValues, props, kept, memo>>

\* What one invocation of the view leaves behind.
Render(op, formData, cb, remember) ==
    LET r == [FormDataConsumerView(formData, props.source, props.index,
                                   props.extra, cb) EXCEPT !.op = op]
    IN /\ last' = r
       /\ kept' = KeptAfter(props.source, cb)
       /\ memo' = IF remember THEN [has |-> TRUE, rec |-> r] ELSE memo

\* FormDataConsumerView rendered directly, with a formData prop.
RenderView(cb, remember) ==
    /\ Render("view", props.formData, cb, remember)
    /\ UNCHANGED <<hostVars, props>>

\* Variant: the resolved form data is written back into the form's state
RenderConsumerWritesBack(cb, remember) ==
    /\ Render("consumer", ResolveFormData(watched, formValues), cb, remember)
    /\ watched' = ResolveFormData(watched, formValues)
    /\ UNCHANGED <<defaultValues, formValues, changed, props>>

\* FormDataConsumer rendered inside the form (lines 45-56).
RenderConsumer(cb, remember) ==
    /\ Render("consumer", ResolveFormData(watched, formValues), cb, remember)
    /\ UNCHANGED <<hostVars, props>>

\* The parent renders the component with other props.
SetProps(p) ==
    /\ p # props
    /\ props' = p
    /\ UNCHANGED <<hostVars, last, kept, memo>>

(***************************************************************************)
(* Spec: FormDataConsumer inside a form whose values change.               *)
(***************************************************************************)
\* Pass-through props of the consumer: none, or the form and record props
ConsumerExtras == {{}, {<<"form", "posts">>, <<"record", "r1">>}}

Init ==
    /\ InitHost(FormObjs)
    /\ InitProps({EmptyObj}, Sources, Indexes, ConsumerExtras)
    /\ last = NoRender
    /\ kept = NoKept
    /\ memo = NoMemo

ChangeStep == \E v \in FormObjs : Change(v)

ConsumerStep ==
    \E cb \in Callbacks(RetValues, {S_role},
                        Scoped(props.index, props.source), FALSE) :
        RenderConsumer(cb, FALSE)

Next == ChangeStep \/ ConsumerStep

Spec == Init /\ [][Next]_vars

(***************************************************************************)
(* SpecView: FormDataConsumerView as a function of its props and of the    *)
(* callback's behaviour.                                                   *)
(***************************************************************************)
InitView ==
    /\ InitHost({EmptyObj})
    /\ InitProps(ViewForms, Sources, Indexes, ExtraProps)
    /\ last = NoRender
    /\ kept = NoKept
    /\ memo = NoMemo

ViewStep ==
    \E cb \in Callbacks(RetValues, RelativePaths,
                        Scoped(props.index, props.source), FALSE) :
        RenderView(cb, FALSE)

NextView == ViewStep

SpecView == InitView /\ [][NextView]_vars

(***************************************************************************)
(* SpecIndep: renders with changing props whose callback may keep          *)
(* getSource across renders, and one earlier render remembered to compare  *)
(* later renders with.                                                     *)
(***************************************************************************)
IndepProps ==
    [formData : {FormUsers}, source : {NoSource, S_users_0},
     index : {"undefined", "0"}, extra : {{}}]

IndepRets == {"undefined", "element"}

InitIndep ==
    /\ InitHost({FormUsers})
    /\ props \in IndepProps
    /\ last = NoRender
    /\ kept = NoKept
    /\ memo = NoMemo

PropsStepIndep == \E p \in IndepProps : SetProps(p)

ViewStepIndep ==
    \E remember \in BOOLEAN :
        \E cb \in Callbacks(IndepRets, {S_role},
                            Scoped(props.index, props.source), TRUE) :
            RenderView(cb, remember)

NextIndep == PropsStepIndep \/ ViewStepIndep

SpecIndep == InitIndep /\ [][NextIndep]_vars

(***************************************************************************)
(* Properties                                                              *)
(***************************************************************************)
Rendered == last.op \in {"view", "consumer"}

IndexDefined == last.index # "undefined"

SourceNonEmpty == last.source # NoSource /\ last.source # EmptyString

PassThroughNames(pairs) == {p[1] : p \in pairs}

\* C1: the view returns what the callback returned, except that undefined
\* becomes null; it never returns undefined, and this is so whether or not
\* the warning was emitted.
C1_ResultIsCallbackResult ==
    Rendered =>
        /\ last.result # "undefined"
        /\ (last.ret = "undefined" => last.result = "null")
        /\ (last.ret # "undefined" => last.result = last.ret)

C1_Witness ==
    /\ last.op = "view"
    /\ last.ret = "undefined"
    /\ last.result = "null"
    /\ IndexDefined

\* A path of a form value: the keys of stringToPath lead to an entry, or the
\* whole string is an own key.
PathPresent(v, source) ==
    \/ source \in ObjectKeys(v)
    \/ LET keys == stringToPath(source)
       IN \E e \in v : Len(e[1]) >= Len(keys) /\ SubSeq(e[1], 1, Len(keys)) = keys

\* C2: with index defined and source non-empty, children is called exactly
\* once with formData, scopedFormData, getSource and the rest props;
\* scopedFormData is get(formData, source) ({c: 1} for source "a.b" in
\* {a: {b: {c: 1}}}), and undefined when the path is missing.
C2_ScopedCall ==
    (Rendered /\ IndexDefined /\ SourceNonEmpty) =>
        /\ Len(last.args) = 1
        /\ last.args[1].keys =
               {"formData", "scopedFormData", "getSource"}
                   \cup (PassThroughNames(last.extra) \ {"form"})
        /\ last.args[1].formData = last.formData
        /\ last.args[1].scopedFormData = get(last.formData, last.source)
        /\ ((last.formData = FormAB /\ last.source = S_a_b) =>
                last.args[1].scopedFormData = Field(S_c, Prim("1")))
        /\ (~PathPresent(last.formData, last.source) =>
                last.args[1].scopedFormData = Undefined)
        /\ last.result = (IF last.ret = "undefined" THEN "null" ELSE last.ret)

C2_Witness ==
    /\ last.op = "view"
    /\ last.index = "0"
    /\ last.source = S_users_0
    /\ last.formData = FormAB
    /\ Len(last.args) = 1
    /\ last.args[1].scopedFormData = Undefined
    /\ last.result = "element"

\* C3: every call getSource(p) returns source + "." + p, for the source of
\* the invocation, whatever the index, the form data and the earlier calls
\* ("users.0.role" for "role" under "users.0").
C3_GetSourceConcatenates ==
    Rendered =>
        /\ Len(last.returned) = Len(last.calls)
        /\ \A i \in 1..Len(last.calls) :
               /\ last.returned[i] = last.source \o <<".">> \o last.calls[i]
               /\ ((last.source = S_users_0 /\ last.calls[i] = S_role) =>
                       last.returned[i] = S_users_0_role)

C3_Witness ==
    /\ last.op = "view"
    /\ last.source = S_users_0
    /\ last.index = "1"
    /\ Len(last.calls) = 2
    /\ last.returned[1] = S_users_0_role
    /\ last.returned[2] = S_users_0_role

\* C4 as stated: with index undefined, children is called exactly once with
\* formData and every received prop other than source, index and children.
C4_Original ==
    (Rendered /\ ~IndexDefined) =>
        /\ Len(last.args) = 1
        /\ last.args[1].formData = last.formData
        /\ last.args[1].rest = last.extra
        /\ last.args[1].keys = {"formData"} \cup PassThroughNames(last.extra)

\* C4 amended: with index undefined, children is called exactly once with
\* formData and every received prop other than source, index, children and
\* form, each unmodified, and with neither scopedFormData nor getSource.
C4_NonScopedCall ==
    (Rendered /\ ~IndexDefined) =>
        /\ Len(last.args) = 1
        /\ last.args[1].formData = last.formData
        /\ last.args[1].rest = {p \in last.extra : p[1] # "form"}
        /\ last.args[1].keys =
               {"formData"} \cup (PassThroughNames(last.extra) \ {"form"})

C4_Witness ==
    /\ last.op = "view"
    /\ ~IndexDefined
    /\ last.source = S_a_b
    /\ last.extra = {<<"form", "posts">>, <<"record", "r1">>}
    /\ last.args[1].rest = {<<"record", "r1">>}

\* What React renders for a node: nothing for undefined, null and booleans.
RendersSomething(ret) == ret \notin {"undefined", "null", "false", "true"}

\* C5 as stated: one warning if index is defined, the callback's result is
\* non-empty and getSource was not called in the render; none otherwise.
C5_Original ==
    Rendered =>
        last.warnings =
            (IF IndexDefined /\ RendersSomething(last.ret) /\ Len(last.calls) = 0
             THEN 1 ELSE 0)

\* C5 amended: one warning if index is defined, the callback's result is
\* truthy and getSource was not called in the render; none otherwise.
C5_WarningOnce ==
    Rendered =>
        last.warnings =
            (IF IndexDefined /\ last.ret \in {"true", "element"} /\ Len(last.calls) = 0
             THEN 1 ELSE 0)

C5_Witness ==
    /\ last.op = "view"
    /\ last.index = "0"
    /\ last.source = S_users_0
    /\ last.ret = "true"
    /\ Len(last.calls) = 0
    /\ last.warnings = 1

\* C6 as stated: a consumer rendered while useWatch is empty and the
\* configured default values are not passes the default values as formData;
\* with a non-empty useWatch it passes that.
C6_Original ==
    last.op = "consumer" =>
        /\ Len(last.args) = 1
        /\ (ObjectKeys(watched) = {} /\ ObjectKeys(defaultValues) # {}) =>
               last.args[1].formData = defaultValues
        /\ ObjectKeys(watched) # {} => last.args[1].formData = watched

\* C6 amended: while useWatch is empty the consumer passes what getValues()
\* returns, the form's current values, which are the configured default
\* values until the first form-value change; with a non-empty useWatch it
\* passes that.
C6_FallbackToGetValues ==
    last.op = "consumer" =>
        /\ Len(last.args) = 1
        /\ ObjectKeys(watched) = {} => last.args[1].formData = formValues
        /\ (ObjectKeys(watched) = {} /\ ~changed) =>
               last.args[1].formData = defaultValues
        /\ ObjectKeys(watched) # {} => last.args[1].formData = watched

C6_Witness ==
    /\ last.op = "consumer"
    /\ ~changed
    /\ watched = EmptyObj
    /\ defaultValues = FormAB
    /\ last.args[1].formData = FormAB

\* C7: a render changes neither the form's values, nor what useWatch holds,
\* nor the default values, and the scopedFormData it passes is the lookup in
\* the formData it passes.
C7_HostUntouched ==
    [][last'.op = "consumer" =>
          /\ hostVars' = hostVars
          /\ \A i \in 1..Len(last'.args) :
                 "scopedFormData" \in last'.args[i].keys =>
                     last'.args[i].scopedFormData =
                         get(last'.args[i].formData, last'.source)]_vars

C7_Witness ==
    /\ last.op = "consumer"
    /\ watched = EmptyObj
    /\ formValues = FormUsers
    /\ last.index = "0"
    /\ last.source = S_users_0
    /\ Len(last.calls) = 1
    /\ last.args[1].scopedFormData = Field(S_role, Null) \cup Field(S_name, Prim("1"))

\* C8: every render of the consumer passes the form's most recent committed
\* values, also when the fallback branch is taken.
C8_MostRecentSnapshot ==
    last.op = "consumer" =>
        /\ Len(last.args) = 1
        /\ last.args[1].formData = formValues
        /\ last.formData = formValues

C8_Witness ==
    /\ last.op = "consumer"
    /\ changed
    /\ defaultValues = FormAB
    /\ watched = EmptyObj
    /\ formValues = EmptyObj
    /\ last.args[1].formData = EmptyObj

\* The inputs of a render: its props and what its callback does with what
\* this render gave it.
SameInputs(r1, r2) ==
    /\ r1.formData = r2.formData
    /\ r1.source = r2.source
    /\ r1.index = r2.index
    /\ r1.extra = r2.extra
    /\ r1.ret = r2.ret
    /\ r1.calls = r2.calls

SameOutputs(r1, r2) ==
    /\ r1.args = r2.args
    /\ r1.returned = r2.returned
    /\ r1.warnings = r2.warnings
    /\ r1.result = r2.result

\* C9: two renders with the same props and the same callback behaviour give
\* the same result and the same warning decision whatever happened between
\* them, and a call of a getSource kept from an earlier render does not
\* suppress the warning.
C9_RendersIndependent ==
    /\ (memo.has /\ Rendered /\ SameInputs(memo.rec, last)) =>
           SameOutputs(memo.rec, last)
    /\ (Rendered /\ IndexDefined /\ last.ret = "element" /\ Len(last.calls) = 0) =>
           last.warnings = 1

C9_Witness ==
    /\ memo.has
    /\ Rendered
    /\ SameInputs(memo.rec, last)
    /\ ~memo.rec.stale
    /\ last.stale
    /\ kept.called
    /\ IndexDefined
    /\ SourceNonEmpty
    /\ last.warnings = 1

\* C10: getSource and scopedFormData are passed exactly when index is defined
\* and source is non-empty; with index defined and source absent or empty
\* the warning is emitted in every render whose callback result is truthy.
C10_ScopedIffIndexAndSource ==
    Rendered =>
        /\ Len(last.args) = 1
        /\ ("getSource" \in last.args[1].keys) = (IndexDefined /\ SourceNonEmpty)
        /\ ("scopedFormData" \in last.args[1].keys) = (IndexDefined /\ SourceNonEmpty)
        /\ (IndexDefined /\ ~SourceNonEmpty /\ last.ret \in {"true", "element"}) =>
               last.warnings = 1

C10_Witness ==
    /\ last.op = "view"
    /\ last.index = "0"
    /\ last.source = EmptyString
    /\ last.ret = "element"
    /\ last.args[1].keys = {"formData"}
    /\ last.warnings = 1

====
